---- MODULE Spec2Model ----
(***************************************************************************)
(* A model of lognowrap.py: the ANSI tokenizer, the width calculator, the  *)
(* slicer, the key decoder and the event loop of main().                   *)
(*                                                                         *)
(* Text is a sequence of code points (integers), a byte string a sequence  *)
(* of byte values.  Python's 0-based indices are kept: At(s, i) is s[i]    *)
(* and Slice(s, a, b) is s[a:b].                                           *)
(***************************************************************************)
EXTENDS Integers, Sequences, FiniteSets, TLC

\* ------------------------------------------------------------------------
\* Bounds of the model
\* ------------------------------------------------------------------------
MaxLineLen == 4
MaxStartCol == 3
MaxSliceWidth == 3
MaxKeyBytes == 4
MaxStdinBytes == 3
MaxChunk == 2
MaxKeyChunk == 2
MaxKeyBuf == 3
MaxCols == 1
MaxRows == 1
MaxWidthLen == 4
MaxCap == 3
MaxAppends == 4
MaxResizes == 1
MaxInputBytes == 6
\* The safety cap of line 70 is 1024 * 1024; the model scales it down so
\* that the reads it bounds can exceed it.
MAX_LINE_BYTES == 2

\* ------------------------------------------------------------------------
\* Python helpers
\* ------------------------------------------------------------------------
At(s, i) == s[i + 1]

Min(a, b) == IF a <= b THEN a ELSE b

Max(a, b) == IF a >= b THEN a ELSE b

Slice(s, a, b) == SubSeq(s, a + 1, Min(b, Len(s)))

SliceFrom(s, a) == SubSeq(s, a + 1, Len(s))

StartsWith(buf, pat, i) ==
    /\ i + Len(pat) <= Len(buf)
    /\ \A k \in 1..Len(pat) : buf[i + k] = pat[k]

RECURSIVE SeqsUpTo(_, _)
SeqsUpTo(S, n) ==
    IF n = 0 THEN {<<>>}
    ELSE LET shorter == SeqsUpTo(S, n - 1)
         IN  shorter \cup {Append(s, x) : s \in {t \in shorter : Len(t) = n - 1}, x \in S}

\* ------------------------------------------------------------------------
\* Characters
\* ------------------------------------------------------------------------
ESC == 27
BEL == 7
LBRACKET == 91
RBRACKET == 93
BACKSLASH == 92
LETTER_O == 79
LETTER_C == 67
LETTER_D == 68
LETTER_m == 109
DIGIT_0 == 48
ETX == 3
LF == 10
CR == 13

\* The Unicode properties _char_width reads, for the characters of the model:
\* U+0301 is a combining mark, U+200B has category Cf, U+4E16 is East Asian
\* Wide.  Every other character used below is narrow or a control character.
CombiningChars == {769}
FormatChars == {8203}
WideChars == {19990}

\* The bytes of ESC [ 0 m
ResetSeq == <<ESC, LBRACKET, DIGIT_0, LETTER_m>>

\* ------------------------------------------------------------------------
\* Ansi tokenizer
\* ------------------------------------------------------------------------
\* A CSI scan that does not take ~ (0x7e) as a final byte
RECURSIVE CsiScanNoTilde(_, _)
CsiScanNoTilde(line, i) ==
    IF i < Len(line)
    THEN IF 64 <= At(line, i) /\ At(line, i) <= 125
         THEN i + 1
         ELSE CsiScanNoTilde(line, i + 1)
    ELSE Len(line)

RECURSIVE CsiScan(_, _)
CsiScan(line, i) ==
    IF i < Len(line)
    THEN IF 64 <= At(line, i) /\ At(line, i) <= 126
         THEN i + 1
         ELSE CsiScan(line, i + 1)
    ELSE Len(line)

RECURSIVE OscScan(_, _)
OscScan(line, i) ==
    IF i < Len(line)
    THEN IF At(line, i) = BEL
         THEN i + 1
         ELSE IF At(line, i) = ESC /\ i + 1 < Len(line) /\ At(line, i + 1) = BACKSLASH
              THEN i + 2
              ELSE OscScan(line, i + 1)
    ELSE Len(line)

\* A _consume_ansi that yields only ESC [ for a CSI sequence the line ends
\* before completing.
ConsumeAnsiDropTail(line, start) ==
    IF start + 1 >= Len(line)
    THEN <<<<At(line, start)>>, start + 1>>
    ELSE LET nxt == At(line, start + 1)
             end == IF nxt = LBRACKET THEN CsiScan(line, start + 2)
                    ELSE IF nxt = RBRACKET THEN OscScan(line, start + 2)
                    ELSE IF nxt \in {40, 41, 35, 37}
                         THEN IF start + 2 < Len(line) THEN start + 3 ELSE Len(line)
                         ELSE start + 2
             whole == nxt # LBRACKET \/ (64 <= At(line, end - 1) /\ At(line, end - 1) <= 126)
         IN  <<IF whole THEN Slice(line, start, end) ELSE Slice(line, start, start + 2), end>>

\* _consume_ansi(line, start): <<sequence, index after it>>
ConsumeAnsi(line, start) ==
    IF start + 1 >= Len(line)
    THEN <<<<At(line, start)>>, start + 1>>
    ELSE LET nxt == At(line, start + 1)
             end == IF nxt = LBRACKET THEN CsiScan(line, start + 2)
                    ELSE IF nxt = RBRACKET THEN OscScan(line, start + 2)
                    ELSE IF nxt \in {40, 41, 35, 37}
                         THEN IF start + 2 < Len(line) THEN start + 3 ELSE Len(line)
                         ELSE start + 2
         IN  <<Slice(line, start, end), end>>

\* _iter_tokens(line): the tokens, each [ansi |-> is_ansi, s |-> text]
RECURSIVE IterFrom(_, _)
IterFrom(line, i) ==
    IF i < Len(line)
    THEN IF At(line, i) = ESC
         THEN LET r == ConsumeAnsi(line, i)
              IN  <<[ansi |-> TRUE, s |-> r[1]]>> \o IterFrom(line, r[2])
         ELSE <<[ansi |-> FALSE, s |-> <<At(line, i)>>]>> \o IterFrom(line, i + 1)
    ELSE <<>>

IterTokens(line) == IterFrom(line, 0)

\* ------------------------------------------------------------------------
\* Width calculator
\* ------------------------------------------------------------------------
\* A _char_width that takes the space for a control character.
CharWidthNoSpace(ch) ==
    IF ch <= 32 \/ (127 <= ch /\ ch < 160) THEN 0
    ELSE IF ch \in CombiningChars \/ ch \in FormatChars THEN 0
    ELSE IF ch \in WideChars THEN 2 ELSE 1

CharWidth(ch) ==
    IF ch < 32 \/ (127 <= ch /\ ch < 160) THEN 0
    ELSE IF ch \in CombiningChars \/ ch \in FormatChars THEN 0
    ELSE IF ch \in WideChars THEN 2 ELSE 1

RECURSIVE WidthOfTokens(_, _)
WidthOfTokens(toks, k) ==
    IF k > Len(toks) THEN 0
    ELSE (IF toks[k].ansi THEN 0 ELSE CharWidth(toks[k].s[1])) + WidthOfTokens(toks, k + 1)

VisibleWidth(line) == WidthOfTokens(IterTokens(line), 1)

\* ------------------------------------------------------------------------
\* Slicer
\* ------------------------------------------------------------------------
\* The for loop of slice_ansi from token k on; st holds the loop's locals.
RECURSIVE SliceLoop(_, _, _, _, _)
SliceLoop(toks, k, start_col, width, st) ==
    IF k > Len(toks) THEN st
    ELSE LET tok == toks[k] IN
         IF tok.ansi
         THEN IF ~st.started
              THEN SliceLoop(toks, k + 1, start_col, width,
                             [st EXCEPT !.prefix = @ \o tok.s])
              ELSE SliceLoop(toks, k + 1, start_col, width,
                             [st EXCEPT !.out = @ \o tok.s])
         ELSE LET w == CharWidth(tok.s[1]) IN
              IF w <= 0
              THEN IF st.started
                   THEN SliceLoop(toks, k + 1, start_col, width,
                                  [st EXCEPT !.out = @ \o tok.s])
                   ELSE SliceLoop(toks, k + 1, start_col, width, st)
              ELSE IF st.pos + w <= start_col
              THEN SliceLoop(toks, k + 1, start_col, width,
                             [st EXCEPT !.pos = @ + w])
              ELSE LET out1 == IF ~st.started /\ st.prefix # <<>>
                               THEN st.out \o st.prefix
                               ELSE st.out
                       st1 == [st EXCEPT !.started = TRUE,
                                         !.out = out1 \o tok.s,
                                         !.pos = @ + w,
                                         !.visible = @ + w]
                   IN  IF st1.visible >= width
                       THEN st1
                       ELSE SliceLoop(toks, k + 1, start_col, width, st1)

\* A slicer that cuts the raw text by index, escape sequences included.
SliceAnsiRaw(line, start_col, width) ==
    IF width <= 0 \/ start_col >= Len(line) THEN <<>>
    ELSE Slice(line, start_col, start_col + width) \o ResetSeq

\* A slicer that leaves out the closing reset.
SliceAnsiNoReset(line, start_col, width) ==
    IF width <= 0 THEN <<>>
    ELSE LET st == SliceLoop(IterTokens(line), 1, start_col, width,
                             [pos |-> 0, visible |-> 0, started |-> FALSE,
                              prefix |-> <<>>, out |-> <<>>])
         IN  IF ~st.started THEN <<>> ELSE st.out

\* A slicer that leaves out the escape sequences in front of the window when
\* the last of them is a reset.
SliceAnsiDropClosed(line, start_col, width) ==
    IF width <= 0 THEN <<>>
    ELSE LET st == SliceLoop(IterTokens(line), 1, start_col, width,
                             [pos |-> 0, visible |-> 0, started |-> FALSE,
                              prefix |-> <<>>, out |-> <<>>])
             closed == /\ Len(st.prefix) >= Len(ResetSeq)
                       /\ SubSeq(st.prefix, Len(st.prefix) - Len(ResetSeq) + 1,
                                 Len(st.prefix)) = ResetSeq
         IN  IF ~st.started THEN <<>>
             ELSE IF closed THEN SliceFrom(st.out, Len(st.prefix)) \o ResetSeq
             ELSE st.out \o ResetSeq

\* A slicer that forgets the escape sequences in front of the window.
SliceAnsiNoPrefix(line, start_col, width) ==
    IF width <= 0 THEN <<>>
    ELSE LET st == SliceLoop(IterTokens(line), 1, start_col, width,
                             [pos |-> 0, visible |-> 0, started |-> FALSE,
                              prefix |-> <<>>, out |-> <<>>])
         IN  IF ~st.started THEN <<>>
             ELSE SliceFrom(st.out, Len(st.prefix)) \o ResetSeq

\* A slicer that writes the escape sequences found in front of the window
\* after the characters of the window.
SliceAnsiStyleLast(line, start_col, width) ==
    IF width <= 0 THEN <<>>
    ELSE LET st == SliceLoop(IterTokens(line), 1, start_col, width,
                             [pos |-> 0, visible |-> 0, started |-> FALSE,
                              prefix |-> <<>>, out |-> <<>>])
         IN  IF ~st.started THEN <<>>
             ELSE SliceFrom(st.out, Len(st.prefix)) \o st.prefix \o ResetSeq

\* slice_ansi(line, start_col, width)
SliceAnsi(line, start_col, width) ==
    IF width <= 0 THEN <<>>
    ELSE LET st == SliceLoop(IterTokens(line), 1, start_col, width,
                             [pos |-> 0, visible |-> 0, started |-> FALSE,
                              prefix |-> <<>>, out |-> <<>>])
         IN  IF ~st.started THEN <<>> ELSE st.out \o ResetSeq

\* ------------------------------------------------------------------------
\* Key decoder
\* ------------------------------------------------------------------------
RECURSIVE KeyCsiScan(_, _)
KeyCsiScan(buf, j) ==
    IF j < Len(buf) /\ ~(64 <= At(buf, j) /\ At(buf, j) <= 126)
    THEN KeyCsiScan(buf, j + 1)
    ELSE j

\* The while loop of parse_keys from index i on: the actions and the final i.
RECURSIVE ParseFrom(_, _, _)
ParseFrom(buf, i, actions) ==
    IF ~(i < Len(buf)) THEN [actions |-> actions, i |-> i]
    ELSE IF At(buf, i) # ESC
    THEN ParseFrom(buf, i + 1,
                   IF At(buf, i) = ETX THEN Append(actions, "quit") ELSE actions)
    ELSE IF StartsWith(buf, <<ESC, LBRACKET, LETTER_C>>, i)
    THEN ParseFrom(buf, i + 3, Append(actions, "right"))
    ELSE IF StartsWith(buf, <<ESC, LBRACKET, LETTER_D>>, i)
    THEN ParseFrom(buf, i + 3, Append(actions, "left"))
    ELSE IF StartsWith(buf, <<ESC, LETTER_O, LETTER_C>>, i)
    THEN ParseFrom(buf, i + 3, Append(actions, "right"))
    ELSE IF StartsWith(buf, <<ESC, LETTER_O, LETTER_D>>, i)
    THEN ParseFrom(buf, i + 3, Append(actions, "left"))
    ELSE IF i + 1 < Len(buf) /\ At(buf, i + 1) = LBRACKET
    THEN LET j == KeyCsiScan(buf, i + 2) IN
         IF j < Len(buf)
         THEN ParseFrom(buf, j + 1,
                        IF At(buf, j) = LETTER_C THEN Append(actions, "right")
                        ELSE IF At(buf, j) = LETTER_D THEN Append(actions, "left")
                        ELSE actions)
         ELSE [actions |-> actions, i |-> i]
    ELSE ParseFrom(buf, i + 1, actions)

\* parse_keys(buf): [actions, rest]
ParseKeys(buf) ==
    LET r == ParseFrom(buf, 0, <<>>)
    IN  [actions |-> r.actions, rest |-> SliceFrom(buf, r.i)]

\* ------------------------------------------------------------------------
\* Terminal size, input decoding and the line buffer
\* ------------------------------------------------------------------------
FALLBACK_COLUMNS == 80
FALLBACK_LINES == 24

\* What os.get_terminal_size answers: an OSError or a size
TermQueries ==
    {[ok |-> FALSE, columns |-> 0, lines |-> 0]}
        \cup [ok : {TRUE}, columns : 0..MaxCols, lines : 0..MaxRows]

\* get_term_size(): <<columns, lines>>
GetTermSize(q) ==
    IF ~q.ok THEN <<FALLBACK_COLUMNS, FALLBACK_LINES>>
    ELSE <<Max(1, q.columns), Max(1, q.lines)>>

\* bytes.decode("utf-8", "replace") for one- and two-byte forms; the lead
\* bytes of three- and four-byte forms are not among the bytes of the model.
RECURSIVE Utf8Decode(_)
Utf8Decode(b) ==
    IF b = <<>> THEN <<>>
    ELSE IF b[1] < 128 THEN <<b[1]>> \o Utf8Decode(Tail(b))
    ELSE IF /\ 194 <= b[1] /\ b[1] <= 223
            /\ Len(b) >= 2 /\ 128 <= b[2] /\ b[2] <= 191
    THEN <<(b[1] - 192) * 64 + (b[2] - 128)>> \o Utf8Decode(Tail(Tail(b)))
    ELSE <<65533>> \o Utf8Decode(Tail(b))

\* bytes.rstrip(b"\r")
RECURSIVE RStripCR(_)
RStripCR(b) ==
    IF b # <<>> /\ b[Len(b)] = CR THEN RStripCR(SubSeq(b, 1, Len(b) - 1)) ELSE b

\* bytes.split(b"\n")
RECURSIVE SplitLF(_)
SplitLF(b) ==
    IF \E k \in 1..Len(b) : b[k] = LF
    THEN LET k == CHOOSE k \in 1..Len(b) : b[k] = LF /\ \A j \in 1..(k - 1) : b[j] # LF
         IN  <<SubSeq(b, 1, k - 1)>> \o SplitLF(SubSeq(b, k + 1, Len(b)))
    ELSE <<b>>

\* bytes.rfind(b"\n")
RFindLF(b) ==
    IF \E k \in 1..Len(b) : b[k] = LF
    THEN (CHOOSE k \in 1..Len(b) : b[k] = LF /\ \A j \in (k + 1)..Len(b) : b[j] # LF) - 1
    ELSE -1

\* A deque(items, maxlen=maxlen) that keeps the first maxlen items.
DequeOfKeepOldest(items, maxlen) ==
    IF Len(items) > maxlen THEN SubSeq(items, 1, maxlen) ELSE items

\* deque(items, maxlen=maxlen): the last maxlen items
DequeOf(items, maxlen) ==
    IF Len(items) > maxlen THEN SubSeq(items, Len(items) - maxlen + 1, Len(items))
    ELSE items

\* An append that leaves a full deque as it is.
DequeAppendWhenRoom(items, maxlen, line) ==
    IF Len(items) >= maxlen THEN items ELSE Append(items, line)

\* lines.append(line) on a deque of capacity maxlen
DequeAppend(items, maxlen, line) == DequeOf(Append(items, line), maxlen)

\* line = raw.rstrip(b"\r"); lines.append(line.decode("utf-8", "replace"))
RECURSIVE AppendRaws(_, _, _)
AppendRaws(items, maxlen, raws) ==
    IF raws = <<>> THEN items
    ELSE AppendRaws(DequeAppend(items, maxlen, Utf8Decode(RStripCR(Head(raws)))),
                    maxlen, Tail(raws))

\* The while loop of lines 351-364 on d = [inbuf, lines, dirty]
RECURSIVE CapLoop(_, _)
CapLoop(d, maxlen) ==
    IF Len(d.inbuf) > MAX_LINE_BYTES
    THEN LET prefix == Slice(d.inbuf, 0, MAX_LINE_BYTES)
             newline == RFindLF(prefix)
         IN  IF newline # -1
             THEN CapLoop([inbuf |-> SliceFrom(d.inbuf, newline + 1),
                           lines |-> AppendRaws(d.lines, maxlen,
                                                SplitLF(Slice(prefix, 0, newline))),
                           dirty |-> TRUE], maxlen)
             ELSE CapLoop([inbuf |-> SliceFrom(d.inbuf, MAX_LINE_BYTES),
                           lines |-> AppendRaws(d.lines, maxlen, <<prefix>>),
                           dirty |-> TRUE], maxlen)
    ELSE d

\* Lines 350-370 without the safety cap of lines 351-364.
TakeChunkNoCap(d, maxlen, chunk) ==
    LET d1 == [d EXCEPT !.inbuf = @ \o chunk]
        parts == SplitLF(d1.inbuf)
        whole == SubSeq(parts, 1, Len(parts) - 1)
    IN  [inbuf |-> parts[Len(parts)],
         lines |-> AppendRaws(d1.lines, maxlen, whole),
         dirty |-> d1.dirty \/ whole # <<>>]

\* Lines 350-370: one chunk read from the data stream
TakeChunk(d, maxlen, chunk) ==
    LET d1 == CapLoop([d EXCEPT !.inbuf = @ \o chunk], maxlen)
        parts == SplitLF(d1.inbuf)
        whole == SubSeq(parts, 1, Len(parts) - 1)
    IN  [inbuf |-> parts[Len(parts)],
         lines |-> AppendRaws(d1.lines, maxlen, whole),
         dirty |-> d1.dirty \/ whole # <<>>]

\* max((visible_width(l) for l in lines), default=0)
RECURSIVE MaxVisibleWidth(_)
MaxVisibleWidth(items) ==
    IF items = <<>> THEN 0
    ELSE Max(VisibleWidth(Head(items)), MaxVisibleWidth(Tail(items)))

\* max_xoff = max(0, max_width - term_width)
MaxXoff(items, width) == Max(0, MaxVisibleWidth(items) - width)

\* The action loop with the max of line 382 left out: a left action
\* subtracts 1 from any offset
RECURSIVE ApplyActionsLeftUnbounded(_, _, _, _)
ApplyActionsLeftUnbounded(actions, v, items, width) ==
    IF actions = <<>> THEN v
    ELSE IF Head(actions) = "left"
    THEN ApplyActionsLeftUnbounded(Tail(actions), [v EXCEPT !.xoff = @ - 1, !.dirty = TRUE],
                                   items, width)
    ELSE IF Head(actions) = "right"
    THEN ApplyActionsLeftUnbounded(Tail(actions),
                                   [v EXCEPT !.xoff = Min(@ + 1, MaxXoff(items, width)),
                                             !.dirty = TRUE],
                                   items, width)
    ELSE IF Head(actions) = "quit"
    THEN [v EXCEPT !.quit = TRUE]
    ELSE ApplyActionsLeftUnbounded(Tail(actions), v, items, width)

\* The action loop with lines 383 and 388 left out: a scroll action does not
\* set dirty
RECURSIVE ApplyActionsNoDirty(_, _, _, _)
ApplyActionsNoDirty(actions, v, items, width) ==
    IF actions = <<>> THEN v
    ELSE IF Head(actions) = "left"
    THEN ApplyActionsNoDirty(Tail(actions), [v EXCEPT !.xoff = Max(0, @ - 1)], items, width)
    ELSE IF Head(actions) = "right"
    THEN ApplyActionsNoDirty(Tail(actions),
                             [v EXCEPT !.xoff = Min(@ + 1, MaxXoff(items, width))],
                             items, width)
    ELSE IF Head(actions) = "quit"
    THEN [v EXCEPT !.quit = TRUE]
    ELSE ApplyActionsNoDirty(Tail(actions), v, items, width)

\* Lines 380-390: the actions of one keyboard read applied in order to
\* v = [xoff, dirty, quit]; a quit action returns at once.
RECURSIVE ApplyActions(_, _, _, _)
ApplyActions(actions, v, items, width) ==
    IF actions = <<>> THEN v
    ELSE IF Head(actions) = "left"
    THEN ApplyActions(Tail(actions), [v EXCEPT !.xoff = Max(0, @ - 1), !.dirty = TRUE],
                      items, width)
    ELSE IF Head(actions) = "right"
    THEN ApplyActions(Tail(actions),
                      [v EXCEPT !.xoff = Min(@ + 1, MaxXoff(items, width)), !.dirty = TRUE],
                      items, width)
    ELSE IF Head(actions) = "quit"
    THEN [v EXCEPT !.quit = TRUE]
    ELSE ApplyActions(Tail(actions), v, items, width)

\* The bytes of ESC [ 2 J, ESC [ H and ESC [ 2 K
ClearSeq == <<ESC, LBRACKET, 50, 74>>
HomeSeq == <<ESC, LBRACKET, 72>>
EraseLineSeq == <<ESC, LBRACKET, 50, 75>>

\* Lines 190-196: the rows idx .. term_height - 1 of render
RECURSIVE RenderRows(_, _, _, _, _)
RenderRows(items, width, height, offset, idx) ==
    IF idx >= height THEN <<>>
    ELSE ResetSeq \o EraseLineSeq
         \o (IF idx < Len(items) THEN SliceAnsi(At(items, idx), offset, width) ELSE <<>>)
         \o (IF idx < height - 1 THEN <<CR, LF>> ELSE <<>>)
         \o RenderRows(items, width, height, offset, idx + 1)

\* A render that clears the whole screen every time.
RenderOutClearAlways(items, width, height, offset, isFirst) ==
    ClearSeq \o HomeSeq \o RenderRows(items, width, height, offset, 0)

\* render(lines, term_width, term_height, xoff, first): what it writes
RenderOut(items, width, height, offset, isFirst) ==
    (IF isFirst THEN ClearSeq ELSE <<>>) \o HomeSeq
        \o RenderRows(items, width, height, offset, 0)

\* Whether what a call of render wrote begins with ESC [ 2 J, as a number
ClearsIn(out) == IF StartsWith(out, ClearSeq, 0) THEN 1 ELSE 0

\* ------------------------------------------------------------------------
\* State
\* ------------------------------------------------------------------------
VARIABLES
    \* one call of slice_ansi: its arguments, its position, its result
    s_line, s_start, s_width, s_pc, s_out,
    \* the key decoder driven as main drives it: the chunks read so far, the
    \* buffer each call was given, the actions each call returned, and keybuf
    k_chunks, k_bufs, k_calls, k_keybuf,
    \* one call of visible_width: its argument, the index i of _iter_tokens,
    \* the tokens yielded so far, the local width, its position
    w_line, w_i, w_tokens, w_width, w_pc,
    \* the line buffer on its own: its capacity and content, its content just
    \* before the last resize, the lines appended since, and how many lines
    \* were appended and how many resizes were made in all
    b_cap, b_lines, b_before, b_hist, b_count, b_resizes,
    \* the data stream handled chunk by chunk: the capacity of the deque, the
    \* chunks read so far, and inbuf, lines and dirty
    i_cap, i_chunks, i_inbuf, i_lines, i_dirty,
    \* every line appended so far, evicted or not, and whether the end of the
    \* stream was read
    i_all, i_eof,
    \* main(): its position, the locals of lines 313-319 and 282-286
    pc, term_width, term_height, lines, maxlen, xoff, inbuf, keybuf, dirty, first,
    resize_flag, use_wakeup,
    \* the events of the current wake-up still to be handled (line 331)
    events,
    \* the terminal: its attributes, those it had at the start, TtyMode.old,
    \* the state of tty_fd and the attributes at the moment it was closed
    tty_attrs, tty_initial, old, tty_fd, attrs_at_close,
    \* how main is ending and has ended: the return or exception under way,
    \* what caused it, the value returned and the exception left to propagate
    pending, cause, ret, exc,
    \* what main has done so far: bytes read from the data stream, any read
    \* at all, any write to standard output, the message on standard error
    stdin_read, did_read, wrote_stdout, stderr_msg,
    \* how many calls of render began by writing ESC [ 2 J
    clears,
    \* the end of the data stream: the fragment retained when a read returned
    \* no bytes, the calls of render made after that and what the one that
    \* returned wrote
    eof_inbuf, eof_renders, eof_out

sliceVars == <<s_line, s_start, s_width, s_pc, s_out>>
keyVars == <<k_chunks, k_bufs, k_calls, k_keybuf>>
widthVars == <<w_line, w_i, w_tokens, w_width, w_pc>>
bufVars == <<b_cap, b_lines, b_before, b_hist, b_count, b_resizes>>
inputVars == <<i_cap, i_chunks, i_inbuf, i_lines, i_dirty, i_all, i_eof>>
loopVars == <<term_width, term_height, lines, maxlen, xoff, inbuf, keybuf, dirty, first,
              resize_flag, use_wakeup, events>>
ttyVars == <<tty_attrs, tty_initial, old, tty_fd, attrs_at_close>>
endVars == <<pending, cause, ret, exc>>
ioVars == <<stdin_read, did_read, wrote_stdout, stderr_msg>>
outVars == <<clears, eof_inbuf, eof_renders, eof_out>>
mainVars == <<pc, loopVars, ttyVars, endVars, ioVars, outVars>>
vars == <<sliceVars, keyVars, widthVars, bufVars, inputVars, mainVars>>

MainIdle ==
    /\ pc = "idle"
    /\ term_width = 0 /\ term_height = 0
    /\ lines = <<>> /\ maxlen = 0
    /\ xoff = 0
    /\ inbuf = <<>> /\ keybuf = <<>>
    /\ dirty = FALSE /\ first = FALSE
    /\ resize_flag = FALSE /\ use_wakeup = FALSE
    /\ events = <<>>
    /\ tty_attrs = "sane" /\ tty_initial = "sane" /\ old = "none"
    /\ tty_fd = "unopened" /\ attrs_at_close = "none"
    /\ pending = "none" /\ cause = "none" /\ ret = -1 /\ exc = "none"
    /\ stdin_read = 0 /\ did_read = FALSE /\ wrote_stdout = FALSE /\ stderr_msg = FALSE
    /\ clears = 0
    /\ eof_inbuf = <<>> /\ eof_renders = 0 /\ eof_out = <<>>

SliceIdle ==
    /\ s_line = <<>>
    /\ s_start = 0
    /\ s_width = 0
    /\ s_pc = "idle"
    /\ s_out = <<>>

KeysIdle ==
    /\ k_chunks = <<>>
    /\ k_bufs = <<>>
    /\ k_calls = <<>>
    /\ k_keybuf = <<>>

WidthIdle ==
    /\ w_line = <<>>
    /\ w_i = 0
    /\ w_tokens = <<>>
    /\ w_width = 0
    /\ w_pc = "idle"

BufIdle ==
    /\ b_cap = 0
    /\ b_lines = <<>>
    /\ b_before = <<>>
    /\ b_hist = <<>>
    /\ b_count = 0
    /\ b_resizes = 0

InputIdle ==
    /\ i_cap = 0
    /\ i_chunks = <<>>
    /\ i_inbuf = <<>>
    /\ i_lines = <<>>
    /\ i_dirty = FALSE
    /\ i_all = <<>>
    /\ i_eof = FALSE

\* ------------------------------------------------------------------------
\* The slicer applied to bounded inputs
\* ------------------------------------------------------------------------
SliceChars == {ESC, LBRACKET, RBRACKET, LETTER_m, 65} \cup WideChars \cup CombiningChars

\* "\x1b[31mHELLO\x1b[0m WORLD"
ExampleLine ==
    <<ESC, LBRACKET, 51, 49, LETTER_m, 72, 69, 76, 76, 79,
      ESC, LBRACKET, DIGIT_0, LETTER_m, 32, 87, 79, 82, 76, 68>>

SliceInputs ==
    (SeqsUpTo(SliceChars, MaxLineLen) \X (0..MaxStartCol) \X ((-1)..MaxSliceWidth))
        \cup ({ExampleLine} \X {0, 6} \X {5})

SliceInit ==
    /\ \E in \in SliceInputs :
          /\ s_line = in[1]
          /\ s_start = in[2]
          /\ s_width = in[3]
    /\ s_pc = "call"
    /\ s_out = <<>>
    /\ KeysIdle
    /\ WidthIdle
    /\ BufIdle
    /\ InputIdle
    /\ MainIdle

CallSlice ==
    /\ s_pc = "call"
    /\ s_out' = SliceAnsi(s_line, s_start, s_width)
    /\ s_pc' = "returned"
    /\ UNCHANGED <<s_line, s_start, s_width, keyVars, widthVars, bufVars, inputVars, mainVars>>

SliceNext == CallSlice

SpecSlice == SliceInit /\ [][SliceNext]_vars

\* ------------------------------------------------------------------------
\* The key decoder fed the keyboard bytes read by read
\* ------------------------------------------------------------------------
KeyBytes == {ESC, LBRACKET, LETTER_O, LETTER_C, LETTER_D, ETX, 49}

KeyChunks == SeqsUpTo(KeyBytes, MaxKeyBytes) \ {<<>>}

KeyChunksOfLen == [n \in 1..MaxKeyBytes |-> {c \in KeyChunks : Len(c) = n}]

RECURSIVE Flatten(_)
Flatten(ss) == IF ss = <<>> THEN <<>> ELSE Head(ss) \o Flatten(Tail(ss))

KeysInit ==
    /\ KeysIdle
    /\ SliceIdle
    /\ WidthIdle
    /\ BufIdle
    /\ InputIdle
    /\ MainIdle

\* main, lines 378-379: keybuf += data; actions, keybuf = parse_keys(keybuf)
FeedKeys ==
    /\ \E n \in 1..(MaxKeyBytes - Len(Flatten(k_chunks))) :
       \E data \in KeyChunksOfLen[n] :
          LET r == ParseKeys(k_keybuf \o data) IN
                /\ k_chunks' = Append(k_chunks, data)
                /\ k_bufs' = Append(k_bufs, k_keybuf \o data)
                /\ k_calls' = Append(k_calls, r.actions)
                /\ k_keybuf' = r.rest
    /\ UNCHANGED <<sliceVars, widthVars, bufVars, inputVars, mainVars>>

KeysNext == FeedKeys

SpecKeys == KeysInit /\ [][KeysNext]_vars

\* ------------------------------------------------------------------------
\* visible_width applied to bounded lines, one token of _iter_tokens a step
\* ------------------------------------------------------------------------
WidthChars ==
    {ESC, LBRACKET, RBRACKET, BACKSLASH, BEL, 40, 32, 65, 126}
        \cup WideChars \cup CombiningChars

WidthInit ==
    /\ w_line \in SeqsUpTo(WidthChars, MaxWidthLen)
    /\ w_i = 0
    /\ w_tokens = <<>>
    /\ w_width = 0
    /\ w_pc = "loop"
    /\ SliceIdle
    /\ KeysIdle
    /\ BufIdle
    /\ InputIdle
    /\ MainIdle

\* Lines 111-117 and 135-138: _iter_tokens yields one token, visible_width
\* adds the width of a character
NextToken ==
    /\ w_pc = "loop"
    /\ w_i < Len(w_line)
    /\ IF At(w_line, w_i) = ESC
       THEN LET r == ConsumeAnsi(w_line, w_i)
            IN  /\ w_tokens' = Append(w_tokens, [ansi |-> TRUE, s |-> r[1]])
                /\ w_i' = r[2]
                /\ UNCHANGED w_width
       ELSE /\ w_tokens' = Append(w_tokens, [ansi |-> FALSE, s |-> <<At(w_line, w_i)>>])
            /\ w_i' = w_i + 1
            /\ w_width' = w_width + CharWidth(At(w_line, w_i))
    /\ UNCHANGED <<w_line, w_pc, sliceVars, keyVars, bufVars, inputVars, mainVars>>

\* Lines 111 and 139: the line is used up, visible_width returns width
WidthReturn ==
    /\ w_pc = "loop"
    /\ ~(w_i < Len(w_line))
    /\ w_pc' = "returned"
    /\ UNCHANGED <<w_line, w_i, w_tokens, w_width, sliceVars, keyVars, bufVars, inputVars, mainVars>>

WidthNext == NextToken \/ WidthReturn

SpecWidth == WidthInit /\ [][WidthNext]_vars

\* ------------------------------------------------------------------------
\* The line buffer: the deque of lines 314, 327 and 368 on its own
\* ------------------------------------------------------------------------
\* "A", "B", "C", "D"
BufLines == {<<65>>, <<66>>, <<67>>, <<68>>}

\* Line 314: lines = collections.deque(maxlen=term_height)
BufInit ==
    /\ b_cap \in 1..MaxCap
    /\ b_lines = <<>>
    /\ b_before = <<>>
    /\ b_hist = <<>>
    /\ b_count = 0
    /\ b_resizes = 0
    /\ SliceIdle
    /\ KeysIdle
    /\ WidthIdle
    /\ InputIdle
    /\ MainIdle

\* Line 368 (and 341, 357, 362): lines.append(...)
BufAppend ==
    /\ b_count < MaxAppends
    /\ \E l \in BufLines :
          /\ b_lines' = DequeAppend(b_lines, b_cap, l)
          /\ b_hist' = Append(b_hist, l)
    /\ b_count' = b_count + 1
    /\ UNCHANGED <<b_cap, b_before, b_resizes, sliceVars, keyVars, widthVars, inputVars, mainVars>>

\* Line 327: lines = collections.deque(lines, maxlen=term_height)
BufResize ==
    /\ b_resizes < MaxResizes
    /\ \E r \in 1..MaxCap :
          /\ b_cap' = r
          /\ b_lines' = DequeOf(b_lines, r)
    /\ b_before' = b_lines
    /\ b_hist' = <<>>
    /\ b_resizes' = b_resizes + 1
    /\ UNCHANGED <<b_count, sliceVars, keyVars, widthVars, inputVars, mainVars>>

BufNext == BufAppend \/ BufResize

SpecBuffer == BufInit /\ [][BufNext]_vars

\* ------------------------------------------------------------------------
\* main()
\* ------------------------------------------------------------------------
\* The terminal attributes a run can start with
OrigAttrs == {"sane", "noecho"}

StdinBytes == {65, LF, CR}

StdinChunks == SeqsUpTo(StdinBytes, MaxChunk) \ {<<>>}

TtyBytes == {ESC, LBRACKET, LETTER_C, LETTER_D, ETX}

TtyChunks == SeqsUpTo(TtyBytes, MaxKeyChunk) \ {<<>>}

\* ------------------------------------------------------------------------
\* The data stream handled chunk by chunk, lines 335 and 350-370
\* ------------------------------------------------------------------------
InputChunks == SeqsUpTo(StdinBytes, MaxInputBytes) \ {<<>>}

\* a capacity no run reaches: the record of every append
NoEviction == MaxInputBytes + 2

InputChunksOfLen == [n \in 1..MaxInputBytes |-> {c \in InputChunks : Len(c) = n}]

\* Lines 314-318: lines = collections.deque(maxlen=term_height), inbuf = b"",
\* dirty = True
InputInit ==
    /\ i_cap \in 1..MaxCap
    /\ i_chunks = <<>>
    /\ i_inbuf = <<>>
    /\ i_lines = <<>>
    /\ i_dirty = TRUE
    /\ i_all = <<>>
    /\ i_eof = FALSE
    /\ SliceIdle
    /\ KeysIdle
    /\ WidthIdle
    /\ BufIdle
    /\ MainIdle

\* Lines 335, 350-370: a read of the data stream returns a chunk
FeedChunk ==
    /\ ~i_eof
    /\ \E n \in 1..(MaxInputBytes - Len(Flatten(i_chunks))) :
       \E chunk \in InputChunksOfLen[n] :
          LET d == TakeChunk([inbuf |-> i_inbuf, lines |-> i_lines, dirty |-> i_dirty],
                             i_cap, chunk)
              h == TakeChunk([inbuf |-> i_inbuf, lines |-> i_all, dirty |-> i_dirty],
                             NoEviction, chunk)
          IN  /\ i_chunks' = Append(i_chunks, chunk)
              /\ i_inbuf' = d.inbuf
              /\ i_lines' = d.lines
              /\ i_dirty' = d.dirty
              /\ i_all' = h.lines
    /\ UNCHANGED <<i_cap, i_eof, sliceVars, keyVars, widthVars, bufVars, mainVars>>

\* Lines 338-343: a read of the data stream returns 0 bytes
InputEof ==
    /\ ~i_eof
    /\ i_eof' = TRUE
    /\ IF i_inbuf # <<>>
       THEN /\ i_lines' = DequeAppend(i_lines, i_cap, Utf8Decode(RStripCR(i_inbuf)))
            /\ i_all' = Append(i_all, Utf8Decode(RStripCR(i_inbuf)))
            /\ i_inbuf' = <<>>
            /\ i_dirty' = TRUE
       ELSE UNCHANGED <<i_lines, i_all, i_inbuf, i_dirty>>
    /\ UNCHANGED <<i_cap, i_chunks, sliceVars, keyVars, widthVars, bufVars, mainVars>>

InputNext == FeedChunk \/ InputEof

SpecInput == InputInit /\ [][InputNext]_vars

\* The lists of ready sources select can return, in any order
EventLists ==
    {e \in SeqsUpTo({"stdin", "tty", "signal"}, 3) :
        \A i, j \in 1..Len(e) : i # j => e[i] # e[j]}

\* The positions inside the with block of line 322
InLoop == {"top", "select", "events", "render", "final_render"}

Init ==
    /\ SliceIdle
    /\ KeysIdle
    /\ WidthIdle
    /\ BufIdle
    /\ InputIdle
    /\ pc = "start"
    /\ term_width = 0 /\ term_height = 0
    /\ lines = <<>> /\ maxlen = 0
    /\ xoff = 0
    /\ inbuf = <<>> /\ keybuf = <<>>
    /\ dirty = FALSE /\ first = FALSE
    /\ resize_flag = FALSE /\ use_wakeup = FALSE
    /\ events = <<>>
    /\ tty_initial \in OrigAttrs
    /\ tty_attrs = tty_initial
    /\ old = "none"
    /\ tty_fd = "unopened" /\ attrs_at_close = "none"
    /\ pending = "none" /\ cause = "none" /\ ret = -1 /\ exc = "none"
    /\ stdin_read = 0 /\ did_read = FALSE /\ wrote_stdout = FALSE /\ stderr_msg = FALSE
    /\ clears = 0
    /\ eof_inbuf = <<>> /\ eof_renders = 0 /\ eof_out = <<>>

\* Lines 268-269: /dev/tty opens
OpenTty ==
    /\ pc = "start"
    /\ tty_fd' = "open"
    /\ pc' = "setup"
    /\ UNCHANGED <<loopVars, tty_attrs, tty_initial, old, attrs_at_close, endVars, ioVars>>
    /\ UNCHANGED <<sliceVars, keyVars, widthVars, bufVars, inputVars, outVars>>

\* Lines 270-272: /dev/tty does not open
OpenTtyFails ==
    /\ pc = "start"
    /\ stderr_msg' = TRUE
    /\ ret' = 1
    /\ cause' = "no_tty"
    /\ pc' = "done"
    /\ UNCHANGED <<loopVars, ttyVars, pending, exc, stdin_read, did_read, wrote_stdout>>
    /\ UNCHANGED <<sliceVars, keyVars, widthVars, bufVars, inputVars, outVars>>

\* Lines 274-319: the selector, the wake-up pipe or the on_resize fallback,
\* and the initial values of the loop's locals
Setup ==
    /\ pc = "setup"
    /\ use_wakeup' \in BOOLEAN
    /\ resize_flag' = FALSE
    /\ \E q \in TermQueries :
          /\ term_width' = GetTermSize(q)[1]
          /\ term_height' = GetTermSize(q)[2]
    /\ lines' = <<>>
    /\ maxlen' = term_height'
    /\ xoff' = 0
    /\ inbuf' = <<>>
    /\ keybuf' = <<>>
    /\ dirty' = TRUE
    /\ first' = TRUE
    /\ pc' = "enter"
    /\ UNCHANGED <<events, ttyVars, endVars, ioVars>>
    /\ UNCHANGED <<sliceVars, keyVars, widthVars, bufVars, inputVars, outVars>>

\* A KeyboardInterrupt raised in lines 274-319, outside the try statement
InterruptSetup ==
    /\ pc = "setup"
    /\ exc' = "KeyboardInterrupt"
    /\ cause' = "interrupt_setup"
    /\ pc' = "done"
    /\ UNCHANGED <<loopVars, ttyVars, pending, ret, ioVars>>
    /\ UNCHANGED <<sliceVars, keyVars, widthVars, bufVars, inputVars, outVars>>

\* Line 322, TtyMode.__init__ and __enter__
EnterTtyMode ==
    /\ pc = "enter"
    /\ old' = tty_attrs
    /\ tty_attrs' = "cbreak"
    /\ pc' = "top"
    /\ UNCHANGED <<loopVars, tty_initial, tty_fd, attrs_at_close, endVars, ioVars>>
    /\ UNCHANGED <<sliceVars, keyVars, widthVars, bufVars, inputVars, outVars>>

\* The resize handling with line 327 left out: the deque is not rebuilt for
\* the new row count
CheckResizeKeepsDeque ==
    /\ pc = "top"
    /\ IF resize_flag
       THEN /\ resize_flag' = FALSE
            /\ \E q \in TermQueries :
                  /\ term_width' = GetTermSize(q)[1]
                  /\ term_height' = GetTermSize(q)[2]
            /\ dirty' = TRUE
            /\ UNCHANGED <<lines, maxlen>>
       ELSE UNCHANGED <<resize_flag, term_width, term_height, lines, maxlen, dirty>>
    /\ pc' = "select"
    /\ UNCHANGED <<xoff, inbuf, keybuf, first, use_wakeup, events, ttyVars, endVars, ioVars>>
    /\ UNCHANGED <<sliceVars, keyVars, widthVars, bufVars, inputVars, outVars>>

\* Lines 324-328
CheckResize ==
    /\ pc = "top"
    /\ IF resize_flag
       THEN /\ resize_flag' = FALSE
            /\ \E q \in TermQueries :
                  /\ term_width' = GetTermSize(q)[1]
                  /\ term_height' = GetTermSize(q)[2]
            /\ lines' = DequeOf(lines, term_height')
            /\ maxlen' = term_height'
            /\ dirty' = TRUE
       ELSE UNCHANGED <<resize_flag, term_width, term_height, lines, maxlen, dirty>>
    /\ pc' = "select"
    /\ UNCHANGED <<xoff, inbuf, keybuf, first, use_wakeup, events, ttyVars, endVars, ioVars>>
    /\ UNCHANGED <<sliceVars, keyVars, widthVars, bufVars, inputVars, outVars>>

\* Line 330: the sources that are ready, none after the timeout
Select ==
    /\ pc = "select"
    /\ \E e \in EventLists :
          /\ use_wakeup \/ \A i \in 1..Len(e) : e[i] # "signal"
          /\ events' = e
    /\ pc' = "events"
    /\ UNCHANGED <<term_width, term_height, lines, maxlen, xoff, inbuf, keybuf, dirty, first,
                   resize_flag, use_wakeup, ttyVars, endVars, ioVars>>
    /\ UNCHANGED <<sliceVars, keyVars, widthVars, bufVars, inputVars, outVars>>

\* Lines 335, 350-370: a read of the data stream returns a chunk
StdinChunk ==
    /\ pc = "events" /\ events # <<>> /\ Head(events) = "stdin"
    /\ \E chunk \in StdinChunks :
          /\ stdin_read + Len(chunk) <= MaxStdinBytes
          /\ stdin_read' = stdin_read + Len(chunk)
          /\ LET d == TakeChunk([inbuf |-> inbuf, lines |-> lines, dirty |-> dirty],
                                maxlen, chunk)
             IN  /\ inbuf' = d.inbuf
                 /\ lines' = d.lines
                 /\ dirty' = d.dirty
    /\ did_read' = TRUE
    /\ UNCHANGED <<pc, term_width, term_height, maxlen, xoff, keybuf, first, resize_flag,
                   use_wakeup, events, ttyVars, endVars, wrote_stdout, stderr_msg>>
    /\ UNCHANGED <<sliceVars, keyVars, widthVars, bufVars, inputVars>>
    /\ UNCHANGED <<clears, eof_inbuf, eof_renders, eof_out>>

\* Lines 336-337: the read would block, the data stream is drained
StdinWouldBlock ==
    /\ pc = "events" /\ events # <<>> /\ Head(events) = "stdin"
    /\ events' = Tail(events)
    /\ did_read' = TRUE
    /\ UNCHANGED <<pc, term_width, term_height, lines, maxlen, xoff, inbuf, keybuf, dirty,
                   first, resize_flag, use_wakeup, ttyVars, endVars, stdin_read,
                   wrote_stdout, stderr_msg>>
    /\ UNCHANGED <<sliceVars, keyVars, widthVars, bufVars, inputVars, outVars>>

\* An end of the data stream that drops the retained fragment.
StdinEofNoFlush ==
    /\ pc = "events" /\ events # <<>> /\ Head(events) = "stdin"
    /\ did_read' = TRUE
    /\ LET flush == inbuf # <<>>
           lines1 == lines
           dirty1 == dirty \/ flush
       IN  /\ lines' = lines1
           /\ inbuf' = <<>>
           /\ dirty' = dirty1
           /\ cause' = "stdin_eof"
           /\ IF dirty1
              THEN /\ xoff' = Min(xoff, MaxXoff(lines1, term_width))
                   /\ pc' = "final_render"
                   /\ UNCHANGED pending
              ELSE /\ pending' = "return"
                   /\ pc' = "exit_ctx"
                   /\ UNCHANGED xoff
    /\ UNCHANGED <<term_width, term_height, maxlen, keybuf, first, resize_flag, use_wakeup,
                   events, ttyVars, ret, exc, stdin_read, wrote_stdout, stderr_msg>>
    /\ eof_inbuf' = inbuf
    /\ UNCHANGED <<sliceVars, keyVars, widthVars, bufVars, inputVars>>
    /\ UNCHANGED <<clears, eof_renders, eof_out>>

\* Lines 338-347: end of the data stream, up to the call of render on line 348
StdinEof ==
    /\ pc = "events" /\ events # <<>> /\ Head(events) = "stdin"
    /\ did_read' = TRUE
    /\ LET flush == inbuf # <<>>
           lines1 == IF flush
                     THEN DequeAppend(lines, maxlen, Utf8Decode(RStripCR(inbuf)))
                     ELSE lines
           dirty1 == dirty \/ flush
       IN  /\ lines' = lines1
           /\ inbuf' = <<>>
           /\ dirty' = dirty1
           /\ cause' = "stdin_eof"
           /\ IF dirty1
              THEN /\ xoff' = Min(xoff, MaxXoff(lines1, term_width))
                   /\ pc' = "final_render"
                   /\ UNCHANGED pending
              ELSE /\ pending' = "return"
                   /\ pc' = "exit_ctx"
                   /\ UNCHANGED xoff
    /\ UNCHANGED <<term_width, term_height, maxlen, keybuf, first, resize_flag, use_wakeup,
                   events, ttyVars, ret, exc, stdin_read, wrote_stdout, stderr_msg>>
    /\ eof_inbuf' = inbuf
    /\ UNCHANGED <<sliceVars, keyVars, widthVars, bufVars, inputVars>>
    /\ UNCHANGED <<clears, eof_renders, eof_out>>

\* Line 335: the read fails with an OSError other than BlockingIOError
StdinError ==
    /\ pc = "events" /\ events # <<>> /\ Head(events) = "stdin"
    /\ did_read' = TRUE
    /\ pending' = "OSError"
    /\ cause' = "read_error"
    /\ pc' = "exit_ctx"
    /\ UNCHANGED <<loopVars, ttyVars, ret, exc, stdin_read, wrote_stdout, stderr_msg>>
    /\ UNCHANGED <<sliceVars, keyVars, widthVars, bufVars, inputVars, outVars>>

\* Line 348: render at the end of the data stream, then return 0 (line 349)
FinalRender ==
    /\ pc = "final_render"
    /\ wrote_stdout' = TRUE
    /\ eof_renders' = eof_renders + 1
    /\ LET out == RenderOut(lines, term_width, term_height, xoff, first)
       IN  \/ /\ eof_out' = out
              /\ clears' = clears + ClearsIn(out)
              /\ pending' = "return"
              /\ UNCHANGED cause
           \/ /\ clears' \in {clears, clears + ClearsIn(out)}
              /\ pending' = "BrokenPipeError"
              /\ cause' = "render_error"
              /\ UNCHANGED eof_out
    /\ pc' = "exit_ctx"
    /\ UNCHANGED <<loopVars, ttyVars, ret, exc, stdin_read, did_read, stderr_msg>>
    /\ UNCHANGED <<sliceVars, keyVars, widthVars, bufVars, inputVars>>
    /\ UNCHANGED eof_inbuf

\* Lines 373, 378-390: a read of the keyboard returns bytes
TtyData ==
    /\ pc = "events" /\ events # <<>> /\ Head(events) = "tty"
    /\ did_read' = TRUE
    /\ \E data \in TtyChunks :
          /\ Len(keybuf) + Len(data) <= MaxKeyBuf
          /\ LET r == ParseKeys(keybuf \o data)
                 v == ApplyActions(r.actions,
                                   [xoff |-> xoff, dirty |-> dirty, quit |-> FALSE],
                                   lines, term_width)
             IN  /\ keybuf' = r.rest
                 /\ xoff' = v.xoff
                 /\ dirty' = v.dirty
                 /\ IF v.quit
                    THEN /\ pending' = "return"
                         /\ cause' = "quit"
                         /\ pc' = "exit_ctx"
                         /\ UNCHANGED events
                    ELSE /\ events' = Tail(events)
                         /\ UNCHANGED <<pending, cause, pc>>
    /\ UNCHANGED <<term_width, term_height, lines, maxlen, inbuf, first, resize_flag,
                   use_wakeup, ttyVars, ret, exc, stdin_read, wrote_stdout, stderr_msg>>
    /\ UNCHANGED <<sliceVars, keyVars, widthVars, bufVars, inputVars, outVars>>

\* Lines 373, 376-377: the read returns no bytes, the keyboard is at its end
TtyEof ==
    /\ pc = "events" /\ events # <<>> /\ Head(events) = "tty"
    /\ did_read' = TRUE
    /\ pending' = "return"
    /\ cause' = "tty_eof"
    /\ pc' = "exit_ctx"
    /\ UNCHANGED <<loopVars, ttyVars, ret, exc, stdin_read, wrote_stdout, stderr_msg>>
    /\ UNCHANGED <<sliceVars, keyVars, widthVars, bufVars, inputVars, outVars>>

\* Lines 374-377: the read would block, data = b"" and main returns
TtyWouldBlock ==
    /\ pc = "events" /\ events # <<>> /\ Head(events) = "tty"
    /\ did_read' = TRUE
    /\ pending' = "return"
    /\ cause' = "tty_would_block"
    /\ pc' = "exit_ctx"
    /\ UNCHANGED <<loopVars, ttyVars, ret, exc, stdin_read, wrote_stdout, stderr_msg>>
    /\ UNCHANGED <<sliceVars, keyVars, widthVars, bufVars, inputVars, outVars>>

\* Lines 391-396: the wake-up pipe is drained
SignalRead ==
    /\ pc = "events" /\ events # <<>> /\ Head(events) = "signal"
    /\ did_read' = TRUE
    /\ resize_flag' = TRUE
    /\ events' = Tail(events)
    /\ UNCHANGED <<pc, term_width, term_height, lines, maxlen, xoff, inbuf, keybuf, dirty,
                   first, use_wakeup, ttyVars, endVars, stdin_read, wrote_stdout, stderr_msg>>
    /\ UNCHANGED <<sliceVars, keyVars, widthVars, bufVars, inputVars, outVars>>

\* Lines 307-311: SIGWINCH handled by on_resize when there is no wake-up pipe
Winch ==
    /\ pc \in InLoop
    /\ ~use_wakeup
    /\ ~resize_flag
    /\ resize_flag' = TRUE
    /\ UNCHANGED <<pc, term_width, term_height, lines, maxlen, xoff, inbuf, keybuf, dirty,
                   first, use_wakeup, events, ttyVars, endVars, ioVars>>
    /\ UNCHANGED <<sliceVars, keyVars, widthVars, bufVars, inputVars, outVars>>

\* A version of lines 398-401 that passes xoff on as it is.
EndEventsNoClamp ==
    /\ pc = "events" /\ events = <<>>
    /\ pc' = IF dirty THEN "render" ELSE "top"
    /\ UNCHANGED <<loopVars, ttyVars, endVars, ioVars>>
    /\ UNCHANGED <<sliceVars, keyVars, widthVars, bufVars, inputVars, outVars>>

\* Lines 398-401: all events handled; if dirty, clamp xoff and call render
EndEvents ==
    /\ pc = "events" /\ events = <<>>
    /\ IF dirty
       THEN /\ xoff' = Min(xoff, MaxXoff(lines, term_width))
            /\ pc' = "render"
       ELSE /\ pc' = "top"
            /\ UNCHANGED xoff
    /\ UNCHANGED <<term_width, term_height, lines, maxlen, inbuf, keybuf, dirty, first,
                   resize_flag, use_wakeup, events, ttyVars, endVars, ioVars>>
    /\ UNCHANGED <<sliceVars, keyVars, widthVars, bufVars, inputVars, outVars>>

\* Lines 402-404: render(list(lines), term_width, term_height, xoff, first)
\* returns, or a write or flush of standard output raises
Render ==
    /\ pc = "render"
    /\ wrote_stdout' = TRUE
    /\ LET out == RenderOut(lines, term_width, term_height, xoff, first)
       IN  \/ /\ clears' = clears + ClearsIn(out)
              /\ first' = FALSE
              /\ dirty' = FALSE
              /\ pc' = "top"
              /\ UNCHANGED <<pending, cause>>
           \/ /\ clears' \in {clears, clears + ClearsIn(out)}
              /\ pending' = "BrokenPipeError"
              /\ cause' = "render_error"
              /\ pc' = "exit_ctx"
              /\ UNCHANGED <<first, dirty>>
    /\ UNCHANGED <<term_width, term_height, lines, maxlen, xoff, inbuf, keybuf, resize_flag,
                   use_wakeup, events, ttyVars, ret, exc, stdin_read, did_read, stderr_msg>>
    /\ UNCHANGED <<sliceVars, keyVars, widthVars, bufVars, inputVars>>
    /\ UNCHANGED <<eof_inbuf, eof_renders, eof_out>>

\* A KeyboardInterrupt raised inside the try statement.  Inside the with
\* block it leaves through TtyMode.__exit__; before TtyMode is entered it
\* goes straight to the except clause of lines 405-406, return 0.
Interrupt ==
    /\ pc \in InLoop \cup {"enter"}
    /\ cause' = "interrupt"
    /\ IF pc = "enter"
       THEN pending' = "return" /\ pc' = "finally"
       ELSE pending' = "KeyboardInterrupt" /\ pc' = "exit_ctx"
    /\ UNCHANGED <<loopVars, ttyVars, ret, exc, ioVars>>
    /\ UNCHANGED <<sliceVars, keyVars, widthVars, bufVars, inputVars, outVars>>

\* A TtyMode.__exit__ that restores the terminal on a normal exit only.
ExitTtyModeOnReturn ==
    /\ pc = "exit_ctx"
    /\ tty_attrs' = IF pending = "return" THEN old ELSE tty_attrs
    /\ pending' = IF pending = "KeyboardInterrupt" THEN "return" ELSE pending
    /\ pc' = "finally"
    /\ UNCHANGED <<loopVars, tty_initial, old, tty_fd, attrs_at_close, cause, ret, exc, ioVars>>
    /\ UNCHANGED <<sliceVars, keyVars, widthVars, bufVars, inputVars, outVars>>

\* A way out of the with block with no except clause behind it.
ExitTtyModeNoExcept ==
    /\ pc = "exit_ctx"
    /\ tty_attrs' = old
    /\ pc' = "finally"
    /\ UNCHANGED <<loopVars, tty_initial, old, tty_fd, attrs_at_close, endVars, ioVars>>
    /\ UNCHANGED <<sliceVars, keyVars, widthVars, bufVars, inputVars, outVars>>

\* The with block is left, by a return or by an exception: TtyMode.__exit__,
\* lines 255-256, restores the attributes; then the except clause of lines
\* 405-406 turns a KeyboardInterrupt into return 0.
ExitTtyMode ==
    /\ pc = "exit_ctx"
    /\ tty_attrs' = old
    /\ pending' = IF pending = "KeyboardInterrupt" THEN "return" ELSE pending
    /\ pc' = "finally"
    /\ UNCHANGED <<loopVars, tty_initial, old, tty_fd, attrs_at_close, cause, ret, exc, ioVars>>
    /\ UNCHANGED <<sliceVars, keyVars, widthVars, bufVars, inputVars, outVars>>

\* Lines 407-414, then the return of 0 or the exception leaving main
Finally ==
    /\ pc = "finally"
    /\ tty_fd' = "closed"
    /\ attrs_at_close' = tty_attrs
    /\ IF pending = "return"
       THEN ret' = 0 /\ UNCHANGED exc
       ELSE exc' = pending /\ UNCHANGED ret
    /\ pc' = "done"
    /\ UNCHANGED <<loopVars, tty_attrs, tty_initial, old, pending, cause, ioVars>>
    /\ UNCHANGED <<sliceVars, keyVars, widthVars, bufVars, inputVars, outVars>>

Next ==
    \/ OpenTty \/ OpenTtyFails \/ Setup \/ InterruptSetup \/ EnterTtyMode
    \/ CheckResize \/ Select
    \/ StdinChunk \/ StdinWouldBlock \/ StdinEof \/ StdinError \/ FinalRender
    \/ TtyData \/ TtyEof \/ TtyWouldBlock
    \/ SignalRead \/ Winch
    \/ EndEvents \/ Render
    \/ Interrupt \/ ExitTtyMode \/ Finally

Spec == Init /\ [][Next]_vars

\* The steps by which the loop moves on whatever its input is: select
\* returns after at most 0.1 s (line 330), every read is non-blocking
\* (lines 275-276, 290) and returns at once, at the latest when nothing is
\* left to read, and the writes of a render return.  The loop therefore
\* never stays for ever where one of these steps can be taken.
LoopStep ==
    \/ CheckResize \/ Select
    \/ StdinWouldBlock \/ TtyWouldBlock \/ SignalRead
    \/ EndEvents \/ Render \/ FinalRender

SpecLive == Init /\ [][Next]_vars /\ WF_vars(LoopStep)

\* Line 420, raise SystemExit(main()): the status the process exits with.
\* An exception that leaves main is reported on standard error; the
\* interpreter then exits with status 1, or is killed by SIGINT (status 130
\* in a shell) when the exception is KeyboardInterrupt.
ExitStatus ==
    IF exc = "none" THEN ret
    ELSE IF exc = "KeyboardInterrupt" THEN 130 ELSE 1

\* ------------------------------------------------------------------------
\* Properties of main()
\* ------------------------------------------------------------------------
\* C2: once TtyMode has been entered, main ends with the terminal attributes
\* it started with restored, and they are restored before tty_fd is closed.
TtyRestoredOnEveryExit ==
    /\ (old # "none" /\ tty_fd = "closed") => attrs_at_close = tty_initial
    /\ (old # "none" /\ pc = "done") => (tty_attrs = tty_initial /\ tty_fd = "closed")

TtyRestoredAfterError ==
    /\ pc = "done"
    /\ old # "none"
    /\ exc = "BrokenPipeError"
    /\ tty_attrs = tty_initial

\* C3: a broken output pipe and a user interrupt both end the loop silently,
\* with exit status 0 and the terminal restored.
SilentExitOnPipeOrInterrupt ==
    (pc = "done" /\ cause \in {"render_error", "interrupt"})
        => (exc = "none" /\ ~stderr_msg /\ ExitStatus = 0 /\ tty_attrs = tty_initial)

RenderOffsetInRange ==
    pc \in {"render", "final_render"} =>
        /\ 0 <= xoff
        /\ xoff <= Max(0, MaxVisibleWidth(lines) - term_width)

RenderScrolled ==
    /\ pc = "render"
    /\ ~first
    /\ xoff > 0
    /\ lines # <<>>

\* ------------------------------------------------------------------------
\* Properties of the key decoder
\* ------------------------------------------------------------------------
Last(s) == s[Len(s)]

\* ESC [ C, ESC [ D, ESC O C, ESC O D, ESC [ <parameter bytes> C/D
IsArrowSeq(s) ==
    /\ Len(s) >= 3
    /\ s[1] = ESC
    /\ Last(s) \in {LETTER_C, LETTER_D}
    /\ \/ Len(s) = 3 /\ s[2] = LETTER_O
       \/ s[2] = LBRACKET /\ \A k \in 3..(Len(s) - 1) : s[k] \in 48..63

ArrowAction(s) == IF Last(s) = LETTER_C THEN "right" ELSE "left"

\* C1: an arrow sequence split across two reads at any point yields no
\* action from the first call of parse_keys and exactly its own action from
\* the second.
KeySplitIndependent ==
    (Len(k_chunks) = 2 /\ IsArrowSeq(Flatten(k_chunks)))
        => (k_calls[1] = <<>> /\ k_calls[2] = <<ArrowAction(Flatten(k_chunks))>>)

\* ------------------------------------------------------------------------
\* Properties of the slicer
\* ------------------------------------------------------------------------
EndsWithReset(out) ==
    /\ Len(out) >= Len(ResetSeq)
    /\ SubSeq(out, Len(out) - Len(ResetSeq) + 1, Len(out)) = ResetSeq

StripReset(out) ==
    IF EndsWithReset(out) THEN SubSeq(out, 1, Len(out) - Len(ResetSeq)) ELSE out

TokWidth(tok) == IF tok.ansi THEN 0 ELSE CharWidth(tok.s[1])

\* The column at which token k of toks starts
ColumnOf(toks, k) == WidthOfTokens(SubSeq(toks, 1, k - 1), 1)

\* Token k is a character with at least one of its columns at or after start_col
ReachesWindow(toks, k, start_col) ==
    /\ ~toks[k].ansi
    /\ TokWidth(toks[k]) > 0
    /\ ColumnOf(toks, k) + TokWidth(toks[k]) > start_col

\* Token k is a character with a column in [start_col, start_col + width)
FallsInWindow(toks, k, start_col, width) ==
    /\ ReachesWindow(toks, k, start_col)
    /\ ColumnOf(toks, k) < start_col + width

RECURSIVE AnsiBefore(_, _)
AnsiBefore(toks, k) ==
    IF k <= 1 THEN <<>>
    ELSE AnsiBefore(toks, k - 1) \o (IF toks[k - 1].ansi THEN toks[k - 1].s ELSE <<>>)

\* out, from offset p on, is a concatenation of whole tokens among toks[k..]
RECURSIVE TokMatch(_, _, _, _)
TokMatch(toks, k, out, p) ==
    IF p = Len(out) THEN TRUE
    ELSE IF k > Len(toks) THEN FALSE
    ELSE \/ /\ StartsWith(out, toks[k].s, p)
            /\ TokMatch(toks, k + 1, out, p + Len(toks[k].s))
         \/ TokMatch(toks, k + 1, out, p)

\* C6: the characters of a slice are at most width columns wide.
SliceFitsWidth ==
    (s_pc = "returned" /\ s_width >= 1)
        => VisibleWidth(StripReset(s_out)) <= s_width

\* C7, as the spec states it: with the style closed before the window,
\* slice_ansi("\x1b[31mHELLO\x1b[0m WORLD", 6, 5) is "WORLD\x1b[0m".
SliceDropsClosedStyle ==
    (s_pc = "returned" /\ s_line = ExampleLine /\ s_start = 6 /\ s_width = 5)
        => s_out = <<87, 79, 82, 76, 68>> \o ResetSeq

\* C7, amended: the slice carries both escape sequences that precede column 6,
\* slice_ansi("\x1b[31mHELLO\x1b[0m WORLD", 6, 5) is
\* "\x1b[31m\x1b[0mWORLD\x1b[0m".
SliceKeepsClosedStyle ==
    (s_pc = "returned" /\ s_line = ExampleLine /\ s_start = 6 /\ s_width = 5)
        => s_out = <<ESC, LBRACKET, 51, 49, LETTER_m>> \o ResetSeq
                     \o <<87, 79, 82, 76, 68>> \o ResetSeq

SliceClosedStyleCase ==
    /\ s_pc = "returned"
    /\ s_line = ExampleLine
    /\ s_start = 6
    /\ s_width = 5
    /\ s_out # <<>>

\* C8: a non-empty slice starts with every escape sequence that precedes its
\* first character in the line, in order, followed by that character;
\* slice_ansi("\x1b[31mHELLO\x1b[0m WORLD", 0, 5) is "\x1b[31mHELLO\x1b[0m".
SliceKeepsPrefix ==
    /\ (s_pc = "returned" /\ s_out # <<>>) =>
          LET toks == IterTokens(s_line) IN
          \E k \in 1..Len(toks) :
             /\ ReachesWindow(toks, k, s_start)
             /\ \A j \in 1..(k - 1) : ~ReachesWindow(toks, j, s_start)
             /\ LET head == AnsiBefore(toks, k) \o toks[k].s
                IN  /\ Len(s_out) >= Len(head)
                    /\ SubSeq(s_out, 1, Len(head)) = head
    /\ (s_pc = "returned" /\ s_line = ExampleLine /\ s_start = 0 /\ s_width = 5) =>
          s_out = <<ESC, LBRACKET, 51, 49, LETTER_m, 72, 69, 76, 76, 79>> \o ResetSeq

SlicePrefixCase ==
    /\ s_pc = "returned"
    /\ s_out # <<>>
    /\ s_start > 0
    /\ s_line # ExampleLine
    /\ LET toks == IterTokens(s_line) IN
       \E k \in 1..Len(toks) :
          /\ ReachesWindow(toks, k, s_start)
          /\ \A j \in 1..(k - 1) : ~ReachesWindow(toks, j, s_start)
          /\ AnsiBefore(toks, k) # <<>>

\* C9: the slice is empty exactly when width <= 0 or no character has a
\* column in [start_col, start_col + width); otherwise it ends with ESC [ 0 m.
SliceEmptyOrReset ==
    s_pc = "returned" =>
        LET toks == IterTokens(s_line) IN
        /\ (s_out = <<>>) <=>
              (s_width <= 0 \/
               ~\E k \in 1..Len(toks) : FallsInWindow(toks, k, s_start, s_width))
        /\ s_out # <<>> => EndsWithReset(s_out)

SliceResetCase ==
    /\ s_pc = "returned"
    /\ s_out # <<>>
    /\ s_start > 0
    /\ ~\E k \in 1..Len(s_line) : s_line[k] = LETTER_m

\* C10: without its closing reset, a slice is a concatenation of whole
\* tokens of the line in their order.
SliceKeepsTokensWhole ==
    s_pc = "returned" =>
        /\ s_out # <<>> => EndsWithReset(s_out)
        /\ TokMatch(IterTokens(s_line), 1, StripReset(s_out), 0)

SliceTokensCase ==
    /\ s_pc = "returned"
    /\ s_out # <<>>
    /\ s_start > 0
    /\ LET toks == IterTokens(s_line) IN
       \E k \in 1..Len(toks) : toks[k].ansi /\ Len(toks[k].s) >= 3

IsPrefix(a, b) == Len(a) <= Len(b) /\ SubSeq(b, 1, Len(a)) = a

\* The characters of toks[k..] that start in a column before w, in order,
\* col being the column at which token k starts
RECURSIVE CharsBefore(_, _, _, _)
CharsBefore(toks, k, col, w) ==
    IF k > Len(toks) \/ col >= w THEN <<>>
    ELSE IF TokWidth(toks[k]) > 0
    THEN toks[k].s \o CharsBefore(toks, k + 1, col + TokWidth(toks[k]), w)
    ELSE CharsBefore(toks, k + 1, col, w)

\* The characters of text that occupy its first w columns
FirstColumns(text, w) == CharsBefore(IterTokens(text), 1, 0, w)

\* C11: for widths 0 < w < W, slice_ansi(line, 0, w) without its reset is a
\* prefix of slice_ansi(line, 0, W) without its reset, and the two hold the
\* same characters in their first w columns.
SlicePrefixStable ==
    (s_pc = "returned" /\ s_start = 0 /\ s_width > 0) =>
        \A W \in (s_width + 1)..(MaxSliceWidth + 1) :
           LET small == StripReset(s_out)
               large == StripReset(SliceAnsi(s_line, 0, W))
           IN  /\ IsPrefix(small, large)
               /\ FirstColumns(small, s_width) = FirstColumns(large, s_width)

SlicePrefixStableCase ==
    /\ s_pc = "returned"
    /\ s_start = 0
    /\ s_width = 1
    /\ s_line # <<>>
    /\ At(s_line, 0) = ESC
    /\ VisibleWidth(s_line) >= 2
    /\ Len(SliceAnsi(s_line, 0, 2)) > Len(s_out)

\* C20: the first character of a slice is the first character of the line
\* that starts at or after column start_col; a character that starts before
\* start_col is never in the slice.
SliceStartsInsideWindow ==
    (s_pc = "returned" /\ s_out # <<>>) =>
        LET toks == IterTokens(s_line) IN
        \E k \in 1..Len(toks) :
           /\ TokWidth(toks[k]) > 0
           /\ ColumnOf(toks, k) >= s_start
           /\ \A j \in 1..(k - 1) :
                 TokWidth(toks[j]) > 0 => ColumnOf(toks, j) < s_start
           /\ IsPrefix(AnsiBefore(toks, k) \o toks[k].s, s_out)

\* ------------------------------------------------------------------------
\* Properties of the tokenizer and of visible_width
\* ------------------------------------------------------------------------
\* The texts of the tokens, joined in order
RECURSIVE TokenText(_)
TokenText(toks) == IF toks = <<>> THEN <<>> ELSE Head(toks).s \o TokenText(Tail(toks))

\* C12: every token _iter_tokens yields is non-empty, the tokens yielded so
\* far joined in order are the line up to the index reached, which never
\* passes the end of the line; when the tokenizer stops the whole line has
\* been yielded.  Each step therefore moves the index forward and the
\* tokenizer stops after at most len(line) tokens.
TokensCoverLine ==
    /\ \A k \in 1..Len(w_tokens) : w_tokens[k].s # <<>>
    /\ w_i <= Len(w_line)
    /\ TokenText(w_tokens) = Slice(w_line, 0, w_i)
    /\ w_pc = "returned" =>
          /\ w_i = Len(w_line)
          /\ TokenText(w_tokens) = w_line
          /\ w_tokens = IterTokens(w_line)

TokensUnfinishedCsiCase ==
    /\ w_pc = "returned"
    /\ Len(w_tokens) >= 2
    /\ LET t == Last(w_tokens)
       IN  /\ t.ansi
           /\ Len(t.s) >= 3
           /\ t.s[2] = LBRACKET
           /\ Last(t.s) < 64

\* C18: a line of printable ASCII characters only (0x20..0x7E) is as wide as
\* it is long.
WidthOfPrintableAscii ==
    (w_pc = "returned" /\ \A k \in 1..Len(w_line) : 32 <= w_line[k] /\ w_line[k] <= 126)
        => w_width = Len(w_line)

WidthPrintableCase ==
    /\ w_pc = "returned"
    /\ Len(w_line) >= 3
    /\ \A k \in 1..Len(w_line) : 32 <= w_line[k] /\ w_line[k] <= 126
    /\ \E k \in 1..Len(w_line) : w_line[k] = 32
    /\ \E k \in 1..Len(w_line) : w_line[k] = 126
    /\ w_width = 3

\* ------------------------------------------------------------------------
\* Properties of the line buffer
\* ------------------------------------------------------------------------
\* The last n items of items
LastN(items, n) == [k \in 1..n |-> items[Len(items) - n + k]]

\* C13: with no resize, after n appends a buffer of capacity c holds the last
\* min(n, c) lines appended, in the order of their appending; capacity 3 with
\* A, B, C, D appended holds B, C, D.
BufferKeepsNewest ==
    b_resizes = 0 =>
        /\ b_lines = LastN(b_hist, Min(Len(b_hist), b_cap))
        /\ (b_cap = 3 /\ b_hist = <<<<65>>, <<66>>, <<67>>, <<68>>>>)
              => b_lines = <<<<66>>, <<67>>, <<68>>>>

BufferEvictedCase ==
    /\ b_resizes = 0
    /\ b_cap = 3
    /\ b_hist = <<<<65>>, <<66>>, <<67>>, <<68>>>>
    /\ Len(b_lines) = 3

\* C14: a resize to r rows keeps the last min(len, r) lines the buffer held,
\* in order (all of them when the buffer grows), and the lines appended
\* afterwards are kept and evicted by the new capacity.
BufferResizeKeepsNewest ==
    b_resizes > 0 =>
        LET kept == LastN(b_before, Min(Len(b_before), b_cap))
            all == kept \o b_hist
        IN  /\ b_hist = <<>> => b_lines = kept
            /\ Len(b_before) <= b_cap => IsPrefix(b_before, all)
            /\ b_lines = LastN(all, Min(Len(all), b_cap))

BufferShrunkCase ==
    /\ b_resizes > 0
    /\ Len(b_before) > b_cap
    /\ b_hist # <<>>
    /\ b_lines = Append(LastN(b_before, b_cap - 1), Last(b_hist))

\* ------------------------------------------------------------------------
\* More properties of the key decoder
\* ------------------------------------------------------------------------
\* How many times x occurs in s
RECURSIVE CountOf(_, _)
CountOf(s, x) ==
    IF s = <<>> THEN 0 ELSE (IF Head(s) = x THEN 1 ELSE 0) + CountOf(Tail(s), x)

\* C17: every ETX byte read from the keyboard yields a Quit action, whatever
\* precedes it: once no byte is held back in keybuf, the calls of parse_keys
\* have returned as many Quit actions as ETX bytes were read.
EveryEtxQuits ==
    k_keybuf = <<>> =>
        CountOf(Flatten(k_calls), "quit") = CountOf(Flatten(k_chunks), ETX)

\* ------------------------------------------------------------------------
\* Properties of the data stream
\* ------------------------------------------------------------------------
\* C16: after each chunk has been handled inbuf is at most MAX_LINE_BYTES
\* long and holds no line feed; so once 2 * MAX_LINE_BYTES bytes without a
\* line feed have been read, a line has been appended by force.
InbufWithinCap ==
    /\ Len(i_inbuf) <= MAX_LINE_BYTES
    /\ \A k \in 1..Len(i_inbuf) : i_inbuf[k] # LF
    /\ (/\ Len(Flatten(i_chunks)) >= 2 * MAX_LINE_BYTES
        /\ CountOf(Flatten(i_chunks), LF) = 0) => i_lines # <<>>

InbufForcedCase ==
    /\ Len(i_chunks) >= 2
    /\ Len(Flatten(i_chunks)) = 2 * MAX_LINE_BYTES
    /\ CountOf(Flatten(i_chunks), LF) = 0
    /\ i_lines # <<>>
    /\ Len(i_inbuf) = MAX_LINE_BYTES

\* C15, as the spec states it: when a read of the data stream returns no
\* bytes the retained fragment becomes the last line of the buffer, render
\* is called exactly once more and shows the buffer with that line, and main
\* returns 0 with the events after the data stream left unhandled.
EofRendersOnce ==
    (pc = "done" /\ cause = "stdin_eof") =>
        /\ eof_inbuf # <<>> =>
              (lines # <<>> /\ Last(lines) = Utf8Decode(RStripCR(eof_inbuf)))
        /\ inbuf = <<>>
        /\ eof_renders = 1
        /\ eof_out = RenderOut(lines, term_width, term_height, xoff, first)
        /\ ret = 0 /\ exc = "none"
        /\ events # <<>> /\ Head(events) = "stdin"

\* C15, amended: the last render is made when the buffer is dirty, which it
\* is whenever a fragment was retained; when nothing was retained and nothing
\* changed since the last render, main returns 0 without rendering again.
EofFlushesAndRendersIfDirty ==
    (pc = "done" /\ cause = "stdin_eof") =>
        /\ eof_inbuf # <<>> =>
              (lines # <<>> /\ Last(lines) = Utf8Decode(RStripCR(eof_inbuf)) /\ dirty)
        /\ inbuf = <<>>
        /\ eof_renders = (IF dirty THEN 1 ELSE 0)
        /\ eof_renders = 1 =>
              eof_out = RenderOut(lines, term_width, term_height, xoff, first)
        /\ ret = 0 /\ exc = "none"
        /\ events # <<>> /\ Head(events) = "stdin"

EofFragmentCase ==
    /\ pc = "done"
    /\ cause = "stdin_eof"
    /\ eof_inbuf = <<65>>
    /\ ~first
    /\ events = <<"stdin", "tty">>
    /\ eof_renders = 1
    /\ ret = 0

\* ------------------------------------------------------------------------
\* Properties of render as main calls it
\* ------------------------------------------------------------------------
\* The locals of lines 313-319 have been assigned
LocalsSet == pc \notin {"start", "setup"} /\ cause \notin {"no_tty", "interrupt_setup"}

\* C19: the first call of render is made with first = True and begins with
\* ESC [ 2 J ESC [ H; every later call is made with first = False and begins
\* with ESC [ H alone.
ClearOnFirstRenderOnly ==
    /\ clears <= 1
    /\ (LocalsSet /\ ~first) => clears = 1
    /\ eof_out # <<>> => clears = 1
    /\ pc \in {"render", "final_render"} =>
          LET out == RenderOut(lines, term_width, term_height, xoff, first)
          IN  IF clears = 0
              THEN first /\ StartsWith(out, ClearSeq \o HomeSeq, 0)
              ELSE ~first /\ StartsWith(out, HomeSeq, 0)

LaterRenderCase ==
    /\ pc = "done"
    /\ ~first
    /\ clears = 1
    /\ lines # <<>>
    /\ StartsWith(eof_out, HomeSeq, 0)

\* ESC [ followed by bytes none of which is in 0x40..0x7E
IsOpenCsi(s) ==
    /\ Len(s) >= 2
    /\ s[1] = ESC
    /\ s[2] = LBRACKET
    /\ \A k \in 3..Len(s) : ~(64 <= s[k] /\ s[k] <= 126)

\* buf ends with an unterminated ESC [ sequence that starts at index p
OpenCsiAt(buf, p) == p \in 0..(Len(buf) - 2) /\ IsOpenCsi(SliceFrom(buf, p))

\* What the last call of parse_keys did with a sequence held back before it,
\* when the bytes read complete the sequence and nothing follows: one action
\* for a final byte C or D, none for another final byte, nothing held back.
HeldCsiYieldsOnce ==
    LET n == Len(k_chunks)
        data == k_chunks[n]
        held == Slice(k_bufs[n], 0, Len(k_bufs[n]) - Len(data))
    IN  (/\ IsOpenCsi(held)
         /\ 64 <= Last(data) /\ Last(data) <= 126
         /\ \A k \in 1..(Len(data) - 1) : ~(64 <= data[k] /\ data[k] <= 126)) =>
            /\ k_keybuf = <<>>
            /\ k_calls[n] = (IF Last(data) = LETTER_C THEN <<"right">>
                             ELSE IF Last(data) = LETTER_D THEN <<"left">>
                             ELSE <<>>)

\* C21, as the spec states it: a buffer that ends with ESC [ and bytes none of
\* which is a final byte has those bytes returned as the remainder; the
\* remainder is always empty or such a sequence; a sequence completed by a
\* later read yields its action once.
OpenCsiHeldBack ==
    /\ k_keybuf = <<>> \/ IsOpenCsi(k_keybuf)
    /\ k_chunks # <<>> =>
          /\ \A p \in 0..Len(Last(k_bufs)) :
                OpenCsiAt(Last(k_bufs), p) => k_keybuf = SliceFrom(Last(k_bufs), p)
          /\ HeldCsiYieldsOnce

\* What parse_keys does guarantee: the same, for an ESC [ that does not
\* itself follow an unterminated ESC [ sequence (of which the ESC would be a
\* parameter byte and the [ the final byte).
OpenCsiHeldBackUnlessInside ==
    /\ k_keybuf = <<>> \/ IsOpenCsi(k_keybuf)
    /\ k_chunks # <<>> =>
          /\ \A p \in 0..Len(Last(k_bufs)) :
                (/\ OpenCsiAt(Last(k_bufs), p)
                 /\ \A q \in 0..(p - 1) : ~OpenCsiAt(Slice(Last(k_bufs), 0, p), q))
                    => /\ k_keybuf = SliceFrom(Last(k_bufs), p)
                       /\ CountOf(Last(k_calls), "right") + CountOf(Last(k_calls), "left")
                             <= CountOf(Slice(Last(k_bufs), 0, p), LETTER_C)
                                  + CountOf(Slice(Last(k_bufs), 0, p), LETTER_D)
          /\ HeldCsiYieldsOnce

OpenCsiCompletedCase ==
    /\ Len(k_chunks) = 2
    /\ k_chunks[1] = <<ESC, LBRACKET, 49>>
    /\ k_chunks[2] = <<LETTER_C>>
    /\ k_calls = <<<<>>, <<"right">>>>
    /\ k_keybuf = <<>>

\* The text of the tokens before the k-th one: the k-th token starts at the
\* index that is its length.
TokenStart(tokens, k) == Len(TokenText(SubSeq(tokens, 1, k - 1)))

IsCsiFinal(c) == 64 <= c /\ c <= 126

\* t, from its third character on, has an OSC terminator ending at index k
OscEndsAt(t, k) ==
    \/ k >= 3 /\ t[k] = BEL
    \/ k >= 4 /\ t[k - 1] = ESC /\ t[k] = BACKSLASH

\* the token t found at an ESC is the one the rules give for the rest of
\* the line from that ESC on
TokenFollowsRules(t, rest) ==
    /\ t # <<>>
    /\ IsPrefix(t, rest)
    /\ t[1] = ESC
    /\ IF Len(rest) = 1 THEN t = <<ESC>>
       ELSE IF rest[2] = LBRACKET
       THEN /\ Len(t) >= 2
            /\ \A k \in 3..(Len(t) - 1) : ~IsCsiFinal(t[k])
            /\ \/ Len(t) >= 3 /\ IsCsiFinal(t[Len(t)])
               \/ t = rest /\ (Len(t) >= 3 => ~IsCsiFinal(t[Len(t)]))
       ELSE IF rest[2] = RBRACKET
       THEN /\ Len(t) >= 2
            /\ \A k \in 3..(Len(t) - 1) : ~OscEndsAt(t, k)
            /\ \/ OscEndsAt(t, Len(t))
               \/ t = rest
       ELSE IF rest[2] \in {40, 41, 35, 37}
       THEN \/ Len(t) = 3
            \/ Len(t) = 2 /\ t = rest
       ELSE Len(t) = 2

\* C22: every escape token _iter_tokens yields starts at an ESC and ends where
\* the four rules say: a CSI sequence after its first byte in @..~, an OSC
\* sequence after its first BEL or ESC \, a charset sequence after one byte
\* more, any other after the byte that follows the ESC, and otherwise at the
\* end of the line; every other token is one character that is not ESC.
TokenBoundariesFollowRules ==
    \A k \in 1..Len(w_tokens) :
        IF w_tokens[k].ansi
        THEN TokenFollowsRules(w_tokens[k].s, SliceFrom(w_line, TokenStart(w_tokens, k)))
        ELSE Len(w_tokens[k].s) = 1 /\ w_tokens[k].s[1] # ESC

TokenTildeThenLoneEscCase ==
    /\ w_pc = "returned"
    /\ Len(w_tokens) = 2
    /\ w_tokens[1] = [ansi |-> TRUE, s |-> <<ESC, LBRACKET, 126>>]
    /\ w_tokens[2].ansi
    /\ w_tokens[2].s = <<ESC>>

\* the input split on the newline byte, each part without its trailing CRs,
\* the part after the last newline only at the end of the stream and only
\* when it is not empty
LinesOfInput(input, eof) ==
    LET parts == SplitLF(input)
        n == Len(parts)
    IN  [k \in 1..(n - 1) |-> Utf8Decode(RStripCR(parts[k]))]
          \o (IF eof /\ parts[n] # <<>>
              THEN <<Utf8Decode(RStripCR(parts[n]))>> ELSE <<>>)

\* C23, as the spec states it: for an input whose lines are each at most
\* MAX_LINE_BYTES long, the lines appended up to and including the end of
\* the stream are the lines of the input, in order, whatever the chunking.
AppendedLinesAreInputLines ==
    LET input == Flatten(i_chunks)
        parts == SplitLF(input)
    IN  (\A k \in 1..Len(parts) : Len(parts[k]) <= MAX_LINE_BYTES) =>
            i_all = LinesOfInput(input, i_eof)

\* What the chunk handling does guarantee: the same for an input whose lines
\* are each at most MAX_LINE_BYTES long with the newline counted; the fragment
\* after the last newline stays in inbuf until its newline or the end of the
\* stream.
AppendedLinesAreShortInputLines ==
    LET input == Flatten(i_chunks)
        parts == SplitLF(input)
        n == Len(parts)
    IN  (/\ \A k \in 1..(n - 1) : Len(parts[k]) + 1 <= MAX_LINE_BYTES
         /\ Len(parts[n]) <= MAX_LINE_BYTES) =>
            /\ i_all = LinesOfInput(input, i_eof)
            /\ ~i_eof => i_inbuf = parts[n]
            /\ i_eof => i_inbuf = <<>>

AppendedAcrossChunksCase ==
    /\ i_eof
    /\ i_chunks = <<<<65>>, <<LF, CR, LF, 65>>>>
    /\ i_all = <<<<65>>, <<>>, <<65>>>>

\* C24: once main has set its locals the capacity of lines is the row count
\* and lines holds no more lines than rows; the dimensions and the capacity
\* change only in the resize handling at the top of the loop, which sets the
\* capacity to the new row count in the same step.
CapacityFollowsRows ==
    /\ [](LocalsSet => maxlen = term_height /\ Len(lines) <= term_height)
    /\ [][(/\ pc # "setup"
           /\ \/ term_width' # term_width
              \/ term_height' # term_height
              \/ maxlen' # maxlen)
            => (pc = "top" /\ resize_flag /\ maxlen' = term_height')]_vars

\* a resize handled after the first render, with a line in a one-row buffer
ResizedWithLinesCase ==
    /\ pc = "select"
    /\ ~first
    /\ dirty
    /\ term_height = 1
    /\ maxlen = 1
    /\ Len(lines) = 1

AtKeyboardRead == pc = "events" /\ events # <<>> /\ Head(events) = "tty"

\* the offset after the actions are applied, as lines 380-388 apply them, to
\* the offset x with the lines and the width of the current state
OffsetAfter(actions, x) ==
    ApplyActions(actions, [xoff |-> x, dirty |-> dirty, quit |-> FALSE],
                 lines, term_width).xoff

\* the offsets a scroll action of a keyboard read can meet: the current one
\* and those left by an earlier action of the same read
OffsetsInRead == {xoff, OffsetAfter(<<"left">>, xoff), OffsetAfter(<<"right">>, xoff)}

\* C26, as the spec states it: the offset is never negative, a ScrollLeft
\* never increases it and a ScrollRight never decreases it, wherever in a
\* wake-up the keyboard is read.
ScrollsAreMonotone ==
    LocalsSet =>
        /\ xoff >= 0
        /\ AtKeyboardRead =>
              \A x \in OffsetsInRead :
                  /\ OffsetAfter(<<"left">>, x) <= x
                  /\ OffsetAfter(<<"right">>, x) >= x

\* C26, amended: the offset is never negative, a ScrollLeft never increases
\* it, and a ScrollRight never takes it below the smaller of the offset and
\* the largest offset of the current lines and width, to which the next
\* render clamps it in any case; it never decreases an offset within that
\* range.
ScrollsAreMonotoneInRange ==
    LocalsSet =>
        /\ xoff >= 0
        /\ AtKeyboardRead =>
              \A x \in OffsetsInRead :
                  /\ x >= 0
                  /\ OffsetAfter(<<"left">>, x) <= x
                  /\ OffsetAfter(<<"right">>, x) >= Min(x, MaxXoff(lines, term_width))
                  /\ x <= MaxXoff(lines, term_width) => OffsetAfter(<<"right">>, x) >= x

\* a keyboard read with the offset already at 1 and room to scroll back
ScrollAtOffsetCase ==
    /\ AtKeyboardRead
    /\ xoff = 1
    /\ MaxXoff(lines, term_width) = 1
    /\ keybuf = <<ESC, LBRACKET>>

\* C27: once the loop has been left, it was left by a Quit action, by a read
\* of 0 bytes from the data stream or the keyboard, by an interrupt or by an
\* error; a read that would block, on either stream, is not among the causes.
LoopEndsOnlyForCause ==
    (LocalsSet /\ pc \in {"exit_ctx", "finally", "done"}) =>
        cause \in {"quit", "stdin_eof", "tty_eof", "interrupt", "read_error", "render_error"}

====
